---- MODULE Spec2Model ----
(***************************************************************************)
(* Model of the rate-confirmation parsing handlers of luxon-tms            *)
(* (src/api/parse-rateconf.js).  Three revisions of the parse handler live *)
(* in that file:                                                           *)
(*   "token"      lines  56-172  bearer token, delimited-text response     *)
(*   "structured" lines 204-333  bearer token, JSON response, insert       *)
(*   "password"   lines 367-483  shared password, delimited-text response  *)
(* Texts are TLA+ strings; a character is a string of length 1.            *)
(***************************************************************************)
EXTENDS Integers, Sequences, FiniteSets, TLC

(***************************************************************************)
(* Characters and the JavaScript string built-ins the handlers use.        *)
(***************************************************************************)
Char(s, i) == SubSeq(s, i, i)

From(s, i) == SubSeq(s, i, Len(s))

\* \s of a JavaScript regular expression and the characters String.trim strips
IsSpace(c) == c \in {" ", "\t", "\n", "\r", "\f"}

\* the characters "." of a regular expression does not match
IsLineTerminator(c) == c \in {"\n", "\r"}

LowerLetters == "abcdefghijklmnopqrstuvwxyz"

UpperLetters == "ABCDEFGHIJKLMNOPQRSTUVWXYZ"

\* canonical case of a character under the /i flag
Fold(c) ==
    IF \E k \in 1..26 : Char(LowerLetters, k) = c
    THEN Char(UpperLetters, CHOOSE k \in 1..26 : Char(LowerLetters, k) = c)
    ELSE c

\* the literal lit matches s at position i, letter case ignored
MatchesAtNoCase(s, i, lit) ==
    /\ i + Len(lit) - 1 <= Len(s)
    /\ \A k \in 1..Len(lit) : Fold(Char(s, i + k - 1)) = Fold(Char(lit, k))

\* String.prototype.startsWith
StartsWith(s, lit) ==
    /\ Len(lit) <= Len(s)
    /\ SubSeq(s, 1, Len(lit)) = lit

\* least and greatest element of a non-empty set of integers
Min(S) == CHOOSE x \in S : \A y \in S : x <= y

Max(S) == CHOOSE x \in S : \A y \in S : y <= x

\* least element of S, or d when S is empty
MinOr(S, d) == IF S = {} THEN d ELSE Min(S)

\* String.prototype.trim
TrimTo(s, keep) == IF keep = {} THEN "" ELSE SubSeq(s, Min(keep), Max(keep))

Trim(s) == TrimTo(s, {i \in 1..Len(s) : ~IsSpace(Char(s, i))})

\* String.prototype.split(',')
RECURSIVE Split(_)
SplitAt(s, commas) ==
    IF commas = {} THEN <<s>>
    ELSE <<SubSeq(s, 1, Min(commas) - 1)>> \o Split(From(s, Min(commas) + 1))

Split(s) == SplitAt(s, {i \in 1..Len(s) : Char(s, i) = ","})

(***************************************************************************)
(* JavaScript numbers.  A finite number is the exact decimal m / 10^s,     *)
(* kept normalised (s is as small as possible); NaN is a value of its own. *)
(* parseFloat is modelled on decimal literals: sign, digits, fraction and  *)
(* exponent; the longest prefix that is a literal is converted and the     *)
(* rest of the text is ignored.                                            *)
(***************************************************************************)
NaN == [k |-> "nan", m |-> 0, s |-> 0]

RECURSIVE Num(_, _)
Num(m, s) ==
    IF s > 0 /\ m % 10 = 0 THEN Num(m \div 10, s - 1)
    ELSE [k |-> "num", m |-> m, s |-> s]

Zero == Num(0, 0)

RECURSIVE Pow10(_)
Pow10(n) == IF n = 0 THEN 1 ELSE 10 * Pow10(n - 1)

Digits == "0123456789"

IsDigit(c) == \E d \in 1..10 : Char(Digits, d) = c

DigitVal(c) == (CHOOSE d \in 1..10 : Char(Digits, d) = c) - 1

\* number of consecutive digits of s from position i on
DigitRun(s, i) == MinOr({j \in i..Len(s) : ~IsDigit(Char(s, j))}, Len(s) + 1) - i

\* value of the n digits of s that start at position i
RECURSIVE DigitsValue(_, _, _)
DigitsValue(s, i, n) ==
    IF n = 0 THEN 0
    ELSE 10 * DigitsValue(s, i, n - 1) + DigitVal(Char(s, i + n - 1))

\* x is a number greater than zero (NaN > 0 is false)
IsPositive(x) == x.k = "num" /\ x.m > 0

\* x is a number less than zero
IsNegative(x) == x.k = "num" /\ x.m < 0

\* the character of t at position p is one of cs
CharIn(t, p, cs) == p <= Len(t) /\ Char(t, p) \in cs

\* the number sm / 10^nf times 10^e
Scale(sm, nf, e) ==
    IF e <= nf THEN Num(sm, nf - e) ELSE Num(sm * Pow10(e - nf), 0)

\* the exponent part that starts at position p1 of t, 0 when there is none
ExponentValue(t, negative, pe) ==
    IF negative THEN 0 - DigitsValue(t, pe, DigitRun(t, pe))
    ELSE DigitsValue(t, pe, DigitRun(t, pe))

Exponent(t, p1) ==
    IF ~(p1 <= Len(t) /\ Fold(Char(t, p1)) = "E") THEN 0
    ELSE ExponentValue(t, CharIn(t, p1 + 1, {"-"}),
                       IF CharIn(t, p1 + 1, {"-", "+"}) THEN p1 + 2 ELSE p1 + 1)

\* the digits of the literal as an integer: ni before the point, nf after it
Mantissa(t, p0, ni, nf) ==
    DigitsValue(t, p0, ni) * Pow10(nf) + DigitsValue(t, p0 + ni + 1, nf)

\* the literal of t whose digits start at p0: ni digits, a point, nf digits
ParseDigits(t, p0, ni, nf) ==
    IF ni = 0 /\ nf = 0 THEN NaN
    ELSE Scale(IF CharIn(t, 1, {"-"}) THEN 0 - Mantissa(t, p0, ni, nf)
               ELSE Mantissa(t, p0, ni, nf),
               nf,
               Exponent(t, IF CharIn(t, p0 + ni, {"."}) THEN p0 + ni + 1 + nf ELSE p0 + ni))

ParseFraction(t, p0, ni) ==
    ParseDigits(t, p0, ni,
                IF CharIn(t, p0 + ni, {"."}) THEN DigitRun(t, p0 + ni + 1) ELSE 0)

ParseSigned(t, p0) == ParseFraction(t, p0, DigitRun(t, p0))

ParseLiteral(t) == ParseSigned(t, IF CharIn(t, 1, {"-", "+"}) THEN 2 ELSE 1)

\* parseFloat(text)
ParseFloat(text) == ParseLiteral(Trim(text))

\* x || 0 for a number x
OrZero(x) == IF x.k = "nan" \/ x.m = 0 THEN Zero ELSE x

\* parseFloat(fields[i - 1]) || 0, where the field may be undefined
ParseFloatOrZero(fields, i) ==
    OrZero(IF i <= Len(fields) THEN ParseFloat(fields[i]) ELSE NaN)

\* decimal text of a natural number
RECURSIVE NatToString(_)
NatToString(n) ==
    IF n < 10 THEN Char(Digits, n + 1)
    ELSE NatToString(n \div 10) \o Char(Digits, (n % 10) + 1)

\* the hundredths n that (p / q).toFixed(2) may print, for p >= 0 and q > 0:
\* the n nearest to 100 p / q and, of two equally near, the larger.  The
\* quotient is a double: a quotient that lies exactly half way is a double
\* only when it is a multiple of 1/8, otherwise the double lies to one side.
Nearest(a, r, q) ==
    IF 2 * r < q THEN {a}
    ELSE IF 2 * r > q THEN {a + 1}
    ELSE IF (2 * a + 1) % 25 = 0 THEN {a + 1}
    ELSE {a, a + 1}

ToFixed2Hundredths(p, q) == Nearest((100 * p) \div q, (100 * p) % q, q)

\* text of n hundredths with two decimals, as toFixed(2) prints it
HundredthsToString(n) ==
    NatToString(n \div 100) \o "." \o Char(Digits, ((n \div 10) % 10) + 1)
        \o Char(Digits, (n % 10) + 1)

\* the texts (booked / miles).toFixed(2) may yield, both greater than zero
ToFixed2(booked, miles) ==
    {HundredthsToString(n) :
        n \in ToFixed2Hundredths(booked.m * Pow10(miles.s), miles.m * Pow10(booked.s))}

(***************************************************************************)
(* aiResponse.match(/<label>\s*\n?(.+)/i): the first group of the leftmost *)
(* match.  \s* is greedy and gives characters back one at a time, \n? is   *)
(* tried before the empty alternative, and (.+) takes the rest of the line *)
(* (at least one character, none of them a line terminator).               *)
(***************************************************************************)
\* end of the white space that starts at position j (the first position not in it)
SpaceEnd(s, j) == MinOr({k \in j..Len(s) : ~IsSpace(Char(s, k))}, Len(s) + 1)

\* (.+) can start at position g
GroupCanStart(s, g) == g <= Len(s) /\ ~IsLineTerminator(Char(s, g))

\* \n? takes the character at position k and (.+) starts after it
TakesNewline(s, k) == k <= Len(s) /\ Char(s, k) = "\n" /\ GroupCanStart(s, k + 1)

\* where (.+) starts when \s* ends before one of the positions ks; 0: no match
GroupStartAmong(s, ks) ==
    IF ks = {} THEN 0
    ELSE IF TakesNewline(s, Max(ks)) THEN Max(ks) + 1
    ELSE Max(ks)

\* where (.+) starts when \s*\n?(.+) is matched from position j; 0: no match
GroupStart(s, j) ==
    GroupStartAmong(s, {k \in j..SpaceEnd(s, j) : TakesNewline(s, k) \/ GroupCanStart(s, k)})

\* last position of the line that position g is on
LineEnd(s, g) == MinOr({k \in g..Len(s) : IsLineTerminator(Char(s, k))}, Len(s) + 1) - 1

\* the match whose group starts at g
MatchFrom(s, g) == [found |-> TRUE, group |-> SubSeq(s, g, LineEnd(s, g))]

\* the leftmost of the matches that start at one of the positions at
LeftmostMatch(s, label, at) ==
    IF at = {} THEN [found |-> FALSE, group |-> ""]
    ELSE MatchFrom(s, GroupStart(s, Min(at) + Len(label)))

\* the result of the match: found, and the text of group 1
LabelMatch(s, label) ==
    LeftmostMatch(s, label,
        {i \in 1..Len(s) :
            MatchesAtNoCase(s, i, label) /\ GroupStart(s, i + Len(label)) # 0})

(***************************************************************************)
(* JavaScript values other than numbers, and truthiness.                   *)
(***************************************************************************)
Undefined == [k |-> "undefined"]

JsNull == [k |-> "null"]

Str(s) == [k |-> "str", v |-> s]

\* !!v
Truthy(v) ==
    CASE v.k = "str" -> v.v # ""
      [] v.k = "num" -> v.m # 0
      [] v.k = "bool" -> v.v
      [] v.k \in {"arr", "obj"} -> TRUE
      [] OTHER -> FALSE

(***************************************************************************)
(* JSON.parse, on the JSON grammar: white space, null, true, false,        *)
(* numbers, strings with the escapes \" \\ \/ \n \r \t, arrays and         *)
(* objects.  A parse yields [ok, v, next]: the value and the position      *)
(* after it.  An object is the sequence of its members in source order;    *)
(* a property read takes the last member of that name.                     *)
(***************************************************************************)
Bool(b) == [k |-> "bool", v |-> b]

Arr(elements) == [k |-> "arr", v |-> elements]

Obj(members) == [k |-> "obj", v |-> members]

Failed == [ok |-> FALSE, v |-> JsNull, next |-> 0]

Parsed(v, next) == [ok |-> TRUE, v |-> v, next |-> next]

\* white space of the JSON grammar
IsJsonSpace(c) == c \in {" ", "\t", "\n", "\r"}

JsonSpaceEnd(s, i) == MinOr({k \in i..Len(s) : ~IsJsonSpace(Char(s, k))}, Len(s) + 1)

\* the character an escape \e stands for, "" when \e is no escape
Unescape(e) ==
    CASE e = "\"" -> "\""
      [] e = "\\" -> "\\"
      [] e = "/"  -> "/"
      [] e = "n"  -> "\n"
      [] e = "r"  -> "\r"
      [] e = "t"  -> "\t"
      [] OTHER    -> ""

\* the rest of a string literal from position j on, acc read so far
RECURSIVE ParseChars(_, _, _)
ParseChars(s, j, acc) ==
    IF j > Len(s) THEN Failed
    ELSE IF Char(s, j) = "\"" THEN Parsed(Str(acc), j + 1)
    ELSE IF Char(s, j) = "\\"
    THEN IF j + 1 > Len(s) \/ Unescape(Char(s, j + 1)) = "" THEN Failed
         ELSE ParseChars(s, j + 2, acc \o Unescape(Char(s, j + 1)))
    ELSE IF Char(s, j) \in {"\n", "\r", "\t"} THEN Failed
    ELSE ParseChars(s, j + 1, acc \o Char(s, j))

ParseString(s, i) == IF CharIn(s, i, {"\""}) THEN ParseChars(s, i + 1, "") ELSE Failed

\* a number whose digits start at p0: ni digits, nf digits after the point
\* (hasPoint), and an exponent part of ne digits after position pe - 1
NumberEnd(s, p0, ni, hasPoint, nf) == IF hasPoint THEN p0 + ni + 1 + nf ELSE p0 + ni

HasExponent(s, p1) == p1 <= Len(s) /\ Fold(Char(s, p1)) = "E"

ExponentDigitsAt(s, p1) == IF CharIn(s, p1 + 1, {"-", "+"}) THEN p1 + 2 ELSE p1 + 1

ParseNumberParts(s, i, p0, ni, hasPoint, nf, p1) ==
    IF ni = 0 \/ (ni > 1 /\ Char(s, p0) = "0") \/ (hasPoint /\ nf = 0) THEN Failed
    ELSE IF HasExponent(s, p1) /\ DigitRun(s, ExponentDigitsAt(s, p1)) = 0 THEN Failed
    ELSE Parsed(ParseDigits(SubSeq(s, i, Len(s)), p0 - i + 1, ni, nf),
                IF HasExponent(s, p1)
                THEN ExponentDigitsAt(s, p1) + DigitRun(s, ExponentDigitsAt(s, p1))
                ELSE p1)

ParseNumberFraction(s, i, p0, ni, hasPoint, nf) ==
    ParseNumberParts(s, i, p0, ni, hasPoint, nf, NumberEnd(s, p0, ni, hasPoint, nf))

ParseNumberDigits(s, i, p0, ni) ==
    ParseNumberFraction(s, i, p0, ni, CharIn(s, p0 + ni, {"."}),
                        IF CharIn(s, p0 + ni, {"."}) THEN DigitRun(s, p0 + ni + 1) ELSE 0)

ParseNumberFrom(s, i, p0) == ParseNumberDigits(s, i, p0, DigitRun(s, p0))

ParseNumber(s, i) == ParseNumberFrom(s, i, IF CharIn(s, i, {"-"}) THEN i + 1 ELSE i)

\* the literal lit stands at position i of s
LiteralAt(s, i, lit) == i + Len(lit) - 1 <= Len(s) /\ SubSeq(s, i, i + Len(lit) - 1) = lit

RECURSIVE ParseValue(_, _)
RECURSIVE ParseMember(_, _, _)
RECURSIVE ParseElement(_, _, _)

\* after a member: "}" ends the object, "," starts the next member
MemberEnd(s, i, members) ==
    IF CharIn(s, i, {"}"}) THEN Parsed(Obj(members), i + 1)
    ELSE IF CharIn(s, i, {","}) THEN ParseMember(s, JsonSpaceEnd(s, i + 1), members)
    ELSE Failed

AfterMemberValue(s, key, r, members) ==
    IF ~r.ok THEN Failed
    ELSE MemberEnd(s, JsonSpaceEnd(s, r.next), Append(members, [key |-> key, val |-> r.v]))

AfterKey(s, key, i, members) ==
    IF CharIn(s, i, {":"}) THEN AfterMemberValue(s, key, ParseValue(s, i + 1), members)
    ELSE Failed

MemberFrom(s, k, members) ==
    IF ~k.ok THEN Failed ELSE AfterKey(s, k.v.v, JsonSpaceEnd(s, k.next), members)

ParseMember(s, i, members) == MemberFrom(s, ParseString(s, i), members)

ParseObject(s, i) ==
    IF CharIn(s, i, {"}"}) THEN Parsed(Obj(<<>>), i + 1) ELSE ParseMember(s, i, <<>>)

\* after an element: "]" ends the array, "," starts the next element
ElementEnd(s, i, elements) ==
    IF CharIn(s, i, {"]"}) THEN Parsed(Arr(elements), i + 1)
    ELSE IF CharIn(s, i, {","}) THEN ParseElement(s, i + 1, elements)
    ELSE Failed

AfterElement(s, r, elements) ==
    IF ~r.ok THEN Failed ELSE ElementEnd(s, JsonSpaceEnd(s, r.next), Append(elements, r.v))

ParseElement(s, i, elements) == AfterElement(s, ParseValue(s, i), elements)

ParseArray(s, i) ==
    IF CharIn(s, i, {"]"}) THEN Parsed(Arr(<<>>), i + 1) ELSE ParseElement(s, i, <<>>)

ParseValueAt(s, i) ==
    IF i > Len(s) THEN Failed
    ELSE IF Char(s, i) = "{" THEN ParseObject(s, JsonSpaceEnd(s, i + 1))
    ELSE IF Char(s, i) = "[" THEN ParseArray(s, JsonSpaceEnd(s, i + 1))
    ELSE IF Char(s, i) = "\"" THEN ParseString(s, i)
    ELSE IF Char(s, i) = "-" \/ IsDigit(Char(s, i)) THEN ParseNumber(s, i)
    ELSE IF LiteralAt(s, i, "null") THEN Parsed(JsNull, i + 4)
    ELSE IF LiteralAt(s, i, "true") THEN Parsed(Bool(TRUE), i + 4)
    ELSE IF LiteralAt(s, i, "false") THEN Parsed(Bool(FALSE), i + 5)
    ELSE Failed

ParseValue(s, i) == ParseValueAt(s, JsonSpaceEnd(s, i))

\* the whole text is one value
WholeText(s, r) == IF r.ok /\ JsonSpaceEnd(s, r.next) = Len(s) + 1 THEN r ELSE Failed

\* JSON.parse(s); ok FALSE: it throws a SyntaxError
JsonParse(s) == WholeText(s, ParseValue(s, 1))

(***************************************************************************)
(* The delimited-text parse of the "token" and "password" handlers.        *)
(***************************************************************************)
\* match ? match[1].trim() : null
TrimmedGroup(match) == IF match.found THEN Str(Trim(match.group)) ELSE JsNull

\* csvLine
CsvLine(ai) == TrimmedGroup(LabelMatch(ai, "CSV LINE:"))

\* invoiceEmail
InvoiceEmail(ai) == TrimmedGroup(LabelMatch(ai, "INVOICE EMAIL:"))

\* f => f.trim() over the parts
TrimAll(parts) == [i \in 1..Len(parts) |-> Trim(parts[i])]

\* Fields keeping the last 16 parts of a longer line
LastSixteen(parts) ==
    IF Len(parts) > 16 THEN SubSeq(parts, Len(parts) - 15, Len(parts)) ELSE parts

FieldsLastSixteen(csvLine) == LastSixteen(TrimAll(Split(csvLine)))

\* csvLine.split(',').map(f => f.trim())
Fields(csvLine) == TrimAll(Split(csvLine))

\* TextField reading one position short of the end of the line
TextFieldOffByOne(fields, i) == IF i < Len(fields) THEN fields[i] ELSE ""

\* fields[i - 1] || ''
TextField(fields, i) == IF i <= Len(fields) THEN fields[i] ELSE ""

\* the loadData object literal
LoadData(fields) ==
    [id             |-> TextField(fields, 1),
     pickup_date    |-> TextField(fields, 2),
     delivery_date  |-> TextField(fields, 3),
     broker_company |-> TextField(fields, 4),
     contact        |-> TextField(fields, 5),
     phone          |-> TextField(fields, 6),
     extension      |-> TextField(fields, 7),
     email          |-> TextField(fields, 8),
     origin         |-> TextField(fields, 9),
     destination    |-> TextField(fields, 10),
     equipment      |-> TextField(fields, 11),
     miles          |-> ParseFloatOrZero(fields, 12),
     posted_rate    |-> ParseFloatOrZero(fields, 13),
     booked_rate    |-> ParseFloatOrZero(fields, 14),
     shipper        |-> TextField(fields, 15),
     receiver       |-> TextField(fields, 16)]

\* Rpm computed for a booked rate of 0 as well (>= 0 in place of > 0)
RpmNonNegative(loadData) ==
    IF IsPositive(loadData.miles) /\ ~IsNegative(loadData.booked_rate)
    THEN {Str(t) : t \in ToFixed2(loadData.booked_rate, loadData.miles)}
    ELSE {JsNull}

\* the values rpm may take after "Calculate RPM"
Rpm(loadData) ==
    IF IsPositive(loadData.miles) /\ IsPositive(loadData.booked_rate)
    THEN {Str(t) : t \in ToFixed2(loadData.booked_rate, loadData.miles)}
    ELSE {JsNull}

\* the success responses: res.status(200).json({success, data, csvLine, rpm})
Success(loadData, csvLine) ==
    {[status |-> 200,
      body   |-> [success |-> TRUE, data |-> loadData, csvLine |-> csvLine, rpm |-> rpm]] :
        rpm \in Rpm(loadData)}

\* Extracted attaching the trimmed text as raw
ExtractedTrimmedRaw(ai, csvLine, invoiceEmail) ==
    IF ~Truthy(csvLine)
    THEN {[status |-> 422,
           body   |-> [error |-> "Could not extract data from PDF", raw |-> Trim(ai)]]}
    ELSE Success(LoadData(Fields(csvLine.v)), csvLine.v)

\* from "if (!csvLine)" on; invoiceEmail is not used after it is computed
Extracted(ai, csvLine, invoiceEmail) ==
    IF ~Truthy(csvLine)
    THEN {[status |-> 422,
           body   |-> [error |-> "Could not extract data from PDF", raw |-> ai]]}
    ELSE Success(LoadData(Fields(csvLine.v)), csvLine.v)

\* the responses the handler may send once the model has answered ai
DelimitedResponses(ai) == Extracted(ai, CsvLine(ai), InvoiceEmail(ai))

(***************************************************************************)
(* The structured parse of the "structured" handler.                       *)
(***************************************************************************)
\* the value of the last member named key, undefined when there is none
MemberValue(members, at) == IF at = {} THEN Undefined ELSE members[Max(at)].val

\* loadData.key, for loadData other than null and key none of the built-in
\* properties of numbers, strings, booleans and arrays
Get(loadData, key) ==
    IF loadData.k = "obj"
    THEN MemberValue(loadData.v, {i \in 1..Len(loadData.v) : loadData.v[i].key = key})
    ELSE Undefined

\* v || null
OrNull(v) == IF Truthy(v) THEN v ELSE JsNull

\* new Date().toISOString()
Now == "2025-11-21T10:00:00.000Z"

\* the loadRecord object literal
LoadRecord(userId, loadData, fileName) ==
    [user_id          |-> userId,
     load_number      |-> OrNull(Get(loadData, "load_number")),
     broker_name      |-> OrNull(Get(loadData, "broker_name")),
     broker_mc        |-> OrNull(Get(loadData, "broker_mc")),
     rate             |-> OrNull(Get(loadData, "rate")),
     pickup_date      |-> OrNull(Get(loadData, "pickup_date")),
     delivery_date    |-> OrNull(Get(loadData, "delivery_date")),
     pickup_city      |-> OrNull(Get(loadData, "pickup_city")),
     pickup_state     |-> OrNull(Get(loadData, "pickup_state")),
     pickup_address   |-> OrNull(Get(loadData, "pickup_address")),
     delivery_city    |-> OrNull(Get(loadData, "delivery_city")),
     delivery_state   |-> OrNull(Get(loadData, "delivery_state")),
     delivery_address |-> OrNull(Get(loadData, "delivery_address")),
     commodity        |-> OrNull(Get(loadData, "commodity")),
     weight           |-> OrNull(Get(loadData, "weight")),
     miles            |-> OrNull(Get(loadData, "miles")),
     notes            |-> OrNull(Get(loadData, "notes")),
     source_file      |-> OrNull(fileName),
     status           |-> Str("pending"),
     created_at       |-> Str(Now)]

\* the row the storage keeps for an inserted record: the record and its id
StoredRow(record, id) == [load |-> record, id |-> id]

(***************************************************************************)
(* The environment: requests, the identity provider, and what the          *)
(* document-understanding model may answer.                                *)
(***************************************************************************)
\* largest number of comma-separated values on a sampled data line
MaxValues == 18

\* rows the loads table may hold
MaxLoads == 1

Methods == {"POST", "OPTIONS", "GET"}

AuthHeaders ==
    {Undefined, Str("Basic dXNlcjpwdw=="), Str("Bearer "), Str("Bearer tok-expired"),
     Str("Bearer tok-alice"), Str("Bearer tok-bob")}

PdfPayloads == {Undefined, Str(""), Str("JVBERi0xLjQK")}

Passwords == {Undefined, Str("milian2024"), Str("letmein")}

FileNames == {Undefined, Str("rateconf.pdf")}

\* process.env.APP_PASSWORD || 'milian2024', APP_PASSWORD not set
APP_PASSWORD == "milian2024"

\* the request bodies a client of handler h sends; hasBody FALSE: req.body is undefined
Bodies(h) ==
    {[pdfBase64 |-> pdf, password |-> pw, fileName |-> fn] :
        pdf \in PdfPayloads,
        pw  \in IF h = "password" THEN Passwords ELSE {Undefined},
        fn  \in IF h = "structured" THEN FileNames ELSE {Undefined}}

NoFields == [pdfBase64 |-> Undefined, password |-> Undefined, fileName |-> Undefined]

Requests(h) ==
    LET headers == IF h = "password" THEN {Undefined} ELSE AuthHeaders
    IN  {[method |-> m, authorization |-> a, hasBody |-> TRUE, body |-> b] :
            m \in Methods, a \in headers, b \in Bodies(h)}
        \cup
        {[method |-> m, authorization |-> a, hasBody |-> FALSE, body |-> NoFields] :
            m \in Methods, a \in headers}

\* supabase.auth.getUser(token): the identity provider's answer
Accounts == {<<"tok-alice", "user-alice">>, <<"tok-bob", "user-bob">>}

GetUser(token) ==
    IF \E a \in Accounts : a[1] = token
    THEN [user |-> Str((CHOOSE a \in Accounts : a[1] = token)[2]), error |-> JsNull]
    ELSE [user |-> JsNull, error |-> Str("invalid JWT")]

\* the ways anthropic.messages.create may fail (error.message)
ModelErrors == {"Request timed out.", "429 rate_limit_error", "401 authentication_error"}

\* the ways the insert may fail (insertError.message)
InsertErrors ==
    {"new row violates row-level security policy for table \"loads\"",
     "TypeError: fetch failed"}

\* answers of the model to the structured handler that are not JSON
NotJsonTexts ==
    {"", "I could not read this document.", "Here is the JSON:\n{\"rate\": 2000}",
     "{\"load_number\": \"LD100\", \"rate\": 2000"}

\* answers that are JSON but no object
NotObjectTexts == {"null", "5", "[]", "\"LD100\"", "true"}

\* objects with none of the expected keys
ForeignObjectTexts == {"{}", "{\"foo\": 1}"}

\* objects of the expected shape without the rate key, with and without miles
RatelessTexts == {"{\"load_number\": \"LD100\", \"miles\": 800}", "{\"load_number\": \"LD100\"}"}

\* objects of the expected shape with a rate
RatedTexts ==
    {" {\"load_number\": \"LD100\", \"rate\": 2000, \"miles\": 800}\n",
     "{\"rate\": 0, \"miles\": 0}"}

JsonTexts ==
    NotJsonTexts \cup NotObjectTexts \cup ForeignObjectTexts \cup RatelessTexts
        \cup RatedTexts

\* A delimited-text answer of the model: pre, the data-line label, the gap
\* after it, the values of the data line and what follows the line.
RECURSIVE Join(_)
Join(values) ==
    IF Len(values) = 0 THEN ""
    ELSE IF Len(values) = 1 THEN values[1]
    ELSE values[1] \o "," \o Join(Tail(values))

Build(d) == d.pre \o d.label \o d.gap \o Join(d.values) \o d.post

NoDoc == [pre |-> "", label |-> "", gap |-> "", values |-> <<>>, post |-> ""]

\* the 16 values of the end-to-end scenario
ScenarioValues ==
    <<"LD100", "2025-11-21", "2025-11-24", "Acme Brokers", "Jane Doe", "555-1212", "",
      "jane@acme.com", "Johnston SC", "Dallas TX", "R", "800", "0", "2000",
      "Acme Shipper", "Acme Receiver">>

\* the same line written with blanks around the values, and other numerals
SpacedValues ==
    <<" LD200", "11/21/2025 ", " 11/24/2025 ", "TQL", "", " 555 0100", "12", "d@tql.com",
      "Reno NV", " Boise ID ", "VR", " 412.5 ", "1500", " 1031.25", "", " Dock 4 ">>

ScenarioInvoice == "\n\nINVOICE EMAIL:\nbilling@acme.com"

\* the first n values of a line that continues past 16 with extra values
Line(template, n) ==
    [i \in 1..n |-> IF i <= 16 THEN template[i] ELSE "extra" \o NatToString(i)]

NumberTexts ==
    {"800", "2000", "500", "1250", "100", "0", "", "-5", "abc", "12.5", " 40 ", "1e3",
     "7 mi"}

NumberDocs ==
    {[pre |-> "", label |-> "CSV LINE:", gap |-> "\n",
      values |-> [ScenarioValues EXCEPT ![12] = mi, ![14] = br],
      post |-> ScenarioInvoice] : mi \in NumberTexts, br \in NumberTexts}

CountDocs ==
    {[pre |-> "", label |-> "CSV LINE:", gap |-> "\n", values |-> Line(t, n),
      post |-> ScenarioInvoice] : t \in {ScenarioValues, SpacedValues}, n \in 0..MaxValues}

LayoutDocs ==
    {[pre |-> pre, label |-> label, gap |-> gap, values |-> values, post |-> post] :
        pre    \in {"", "Result: ", "Sure.\n"},
        label  \in {"CSV LINE:", "csv line:", "Csv Line:", "CSV LINE", ""},
        gap    \in {"\n", "", " ", "\n\n", " \n\t"},
        values \in {<<>>, <<"LD7", " a b ", "", "x">>},
        post   \in {"", "\n", ScenarioInvoice, "\r\nINVOICE EMAIL: ap@x.io \r\n"}}

DelimitedDocs == NumberDocs \cup CountDocs \cup LayoutDocs

\* a few of them: the scenario, a line of 10 values, a negative numeral, no
\* label, the empty text and an empty CSV LINE block
SampleDocs ==
    {d \in CountDocs : d.values \in {ScenarioValues, Line(ScenarioValues, 10)}}
    \cup {d \in NumberDocs : d.values[12] = "-5" /\ d.values[14] = "2000"}
    \cup {d \in LayoutDocs : d.pre = "" /\ d.gap = "\n" /\ d.values = <<>>
                             /\ d.label \in {"", "CSV LINE:"}
                             /\ d.post \in {"", ScenarioInvoice}}

\* one answer of each kind to the structured handler
SampleTexts ==
    {"I could not read this document.", "null", "{}",
     " {\"load_number\": \"LD100\", \"rate\": 2000, \"miles\": 800}\n"}

(***************************************************************************)
(* State.                                                                  *)
(***************************************************************************)
VARIABLES
    pc,          \* where the handler is: "idle", "auth", "model", "insert", "done"
    handler,     \* the handler serving the request
    req,         \* the request
    user,        \* the user verifyUser returned
    aiResponse,  \* response.content[0].text, Undefined until the model answers
    doc,         \* the delimited answer the model composed (its parts)
    locals,      \* loadData and loadRecord of the structured handler
    res,         \* the responses sent for this request, in order
    modelCalls,  \* calls of anthropic.messages.create during this request
    inserts,     \* calls of supabase.from('loads').insert during this request
    log,         \* console.error entries of this request
    loads        \* the rows of the loads table

vars ==
    <<pc, handler, req, user, aiResponse, doc, locals, res, modelCalls, inserts, log, loads>>

NoLocals == [loadData |-> Undefined, loadRecord |-> Undefined]

Init ==
    /\ pc = "idle"
    /\ handler = "token"
    /\ req = [method |-> "OPTIONS", authorization |-> Undefined, hasBody |-> FALSE,
              body |-> NoFields]
    /\ user = JsNull
    /\ aiResponse = Undefined
    /\ doc = NoDoc
    /\ locals = NoLocals
    /\ res = <<>>
    /\ modelCalls = 0
    /\ inserts = 0
    /\ log = <<>>
    /\ loads = <<>>

\* res.status(status).json(body) or .end(), and the handler returns
Send(sent, status, body) ==
    /\ res' = Append(sent, [status |-> status, body |-> body])
    /\ pc' = "done"

\* the message of the TypeError thrown by the destructuring of an undefined req.body
NoBodyMessage == "Cannot destructure property 'pdfBase64' of 'req.body' as it is undefined."

\* the body of the response the catch block sends for an error with this message
CatchBody(h, message) ==
    IF h = "structured"
    THEN [error |-> "Failed to process rate confirmation"]
    ELSE [error |-> "Failed to parse PDF", details |-> message]

\* the catch block at the end of the handler
Catch(h, sent, logged, message) ==
    /\ log' = Append(logged, [label |-> "Parse error:", payload |-> Str(message)])
    /\ Send(sent, 500, CatchBody(h, message))

\* BodyStep rejecting only an absent pdfBase64, not an empty one
BodyStepEmptyPayloadPasses(h, r, sent, logged, calls) ==
    IF ~r.hasBody
    THEN /\ Catch(h, sent, logged, NoBodyMessage)
         /\ modelCalls' = calls
    ELSE IF h = "password" /\ r.body.password # Str(APP_PASSWORD)
    THEN /\ Send(sent, 401, [error |-> "Invalid password"])
         /\ log' = logged
         /\ modelCalls' = calls
    ELSE IF r.body.pdfBase64 = Undefined
    THEN /\ Send(sent, 400, [error |-> "No PDF data provided"])
         /\ log' = logged
         /\ modelCalls' = calls
    ELSE /\ pc' = "model"
         /\ res' = sent
         /\ log' = logged
         /\ modelCalls' = calls + 1

\* from the destructuring of req.body to the call of the model
BodyStep(h, r, sent, logged, calls) ==
    IF ~r.hasBody
    THEN /\ Catch(h, sent, logged, NoBodyMessage)
         /\ modelCalls' = calls
    ELSE IF h = "password" /\ r.body.password # Str(APP_PASSWORD)
    THEN /\ Send(sent, 401, [error |-> "Invalid password"])
         /\ log' = logged
         /\ modelCalls' = calls
    ELSE IF ~Truthy(r.body.pdfBase64)
    THEN /\ Send(sent, 400, [error |-> "No PDF data provided"])
         /\ log' = logged
         /\ modelCalls' = calls
    ELSE /\ pc' = "model"
         /\ res' = sent
         /\ log' = logged
         /\ modelCalls' = calls + 1

\* the handler is invoked with request r and runs to its first await or response
Receive(h, r) ==
    /\ pc \in {"idle", "done"}
    /\ handler' = h
    /\ req' = r
    /\ user' = JsNull
    /\ aiResponse' = Undefined
    /\ doc' = NoDoc
    /\ locals' = NoLocals
    /\ inserts' = 0
    /\ UNCHANGED loads
    /\ IF r.method = "OPTIONS"
       THEN Send(<<>>, 200, <<>>) /\ log' = <<>> /\ modelCalls' = 0
       ELSE IF r.method # "POST"
       THEN Send(<<>>, 405, [error |-> "Method not allowed"]) /\ log' = <<>> /\ modelCalls' = 0
       ELSE IF h = "password"
       THEN BodyStep(h, r, <<>>, <<>>, 0)
       ELSE IF ~Truthy(r.authorization) \/ ~StartsWith(r.authorization.v, "Bearer ")
       THEN /\ Send(<<>>, 401, [error |-> "No authorization token provided"])
            /\ log' = <<>>
            /\ modelCalls' = 0
       ELSE pc' = "auth" /\ res' = <<>> /\ log' = <<>> /\ modelCalls' = 0

\* AuthReturns without the return on authError: the handler runs on whatever
\* verifyUser answered
AuthReturnsUnchecked ==
    /\ pc = "auth"
    /\ user' = GetUser(From(req.authorization.v, 8)).user
    /\ BodyStep(handler, req, res, log, modelCalls)
    /\ UNCHANGED <<handler, req, aiResponse, doc, locals, inserts, loads>>

\* supabase.auth.getUser answers, and the handler runs on
AuthReturns ==
    /\ pc = "auth"
    /\ LET got == GetUser(From(req.authorization.v, 8))
       IN  IF Truthy(got.error) \/ ~Truthy(got.user)
           THEN /\ Send(res, 401, [error |-> "Invalid or expired token"])
                /\ UNCHANGED <<user, log, modelCalls>>
           ELSE /\ user' = got.user
                /\ BodyStep(handler, req, res, log, modelCalls)
    /\ UNCHANGED <<handler, req, aiResponse, doc, locals, inserts, loads>>

\* ModelReturnsText saving the parsed line as a row of the loads table
ModelReturnsTextSaving(d) ==
    /\ pc = "model"
    /\ handler \in {"token", "password"}
    /\ aiResponse' = Str(Build(d))
    /\ doc' = d
    /\ \E r \in DelimitedResponses(Build(d)) : Send(res, r.status, r.body)
    /\ loads' = IF Len(loads) < MaxLoads
                THEN Append(loads, StoredRow(Str(Build(d)), Len(loads) + 1))
                ELSE loads
    /\ UNCHANGED <<handler, req, user, locals, modelCalls, inserts, log>>

\* the model answers with the text of d: a delimited-text handler parses it
ModelReturnsText(d) ==
    /\ pc = "model"
    /\ handler \in {"token", "password"}
    /\ aiResponse' = Str(Build(d))
    /\ doc' = d
    /\ \E r \in DelimitedResponses(Build(d)) : Send(res, r.status, r.body)
    /\ UNCHANGED <<handler, req, user, locals, modelCalls, inserts, log, loads>>

\* anthropic.messages.create throws
ModelThrows(e) ==
    /\ pc = "model"
    /\ Catch(handler, res, log, e)
    /\ UNCHANGED <<handler, req, user, aiResponse, doc, locals, modelCalls, inserts, loads>>

\* the model answers text: the structured handler parses it and calls insert
Structured(text, parsed) ==
    IF ~parsed.ok
    THEN /\ log' = Append(log, [label |-> "Failed to parse Claude response:",
                                payload |-> Str(text)])
         /\ Send(res, 500, [error |-> "Failed to parse rate confirmation data"])
         /\ UNCHANGED <<locals, inserts>>
    ELSE IF parsed.v.k = "null"
    THEN /\ Catch(handler, res, log,
                  "Cannot read properties of null (reading 'load_number')")
         /\ UNCHANGED <<locals, inserts>>
    ELSE /\ locals' = [loadData   |-> parsed.v,
                       loadRecord |-> LoadRecord(user, parsed.v, req.body.fileName)]
         /\ inserts' = inserts + 1
         /\ pc' = "insert"
         /\ UNCHANGED <<res, log>>

ModelReturnsJson(text) ==
    /\ pc = "model"
    /\ handler = "structured"
    /\ aiResponse' = Str(text)
    /\ Structured(text, JsonParse(Trim(text)))
    /\ UNCHANGED <<handler, req, user, doc, modelCalls, loads>>

\* the insert succeeds: the storage keeps the row and returns it
InsertReturns ==
    /\ pc = "insert"
    /\ Len(loads) < MaxLoads
    /\ loads' = Append(loads, StoredRow(locals.loadRecord, Len(loads) + 1))
    /\ Send(res, 200, [success |-> TRUE,
                       load    |-> StoredRow(locals.loadRecord, Len(loads) + 1),
                       parsed  |-> locals.loadData])
    /\ UNCHANGED <<handler, req, user, aiResponse, doc, locals, modelCalls, inserts, log>>

\* the insert fails with insertError e
InsertFails(e) ==
    /\ pc = "insert"
    /\ log' = Append(log, [label |-> "Supabase insert error:", payload |-> Str(e)])
    /\ Send(res, 500, [error |-> "Failed to save load to database"])
    /\ UNCHANGED <<handler, req, user, aiResponse, doc, locals, modelCalls, inserts, loads>>

DelimitedHandlers == {"token", "password"}

NextDelimited ==
    \/ \E h \in DelimitedHandlers : \E r \in Requests(h) : Receive(h, r)
    \/ AuthReturns
    \/ \E d \in DelimitedDocs : ModelReturnsText(d)
    \/ \E e \in ModelErrors : ModelThrows(e)

SpecDelimited == Init /\ [][NextDelimited]_vars

NextStructured ==
    \/ \E r \in Requests("structured") : Receive("structured", r)
    \/ AuthReturns
    \/ \E t \in JsonTexts : ModelReturnsJson(t)
    \/ \E e \in ModelErrors : ModelThrows(e)
    \/ InsertReturns
    \/ \E e \in InsertErrors : InsertFails(e)

SpecStructured == Init /\ [][NextStructured]_vars

Handlers == {"token", "structured", "password"}

Next ==
    \/ \E h \in Handlers : \E r \in Requests(h) : Receive(h, r)
    \/ AuthReturns
    \/ \E d \in SampleDocs : ModelReturnsText(d)
    \/ \E t \in SampleTexts : ModelReturnsJson(t)
    \/ \E e \in ModelErrors : ModelThrows(e)
    \/ InsertReturns
    \/ \E e \in InsertErrors : InsertFails(e)

Spec == Init /\ [][Next]_vars

(***************************************************************************)
(* The loads handler: createLoad and updateLoad, getLoads and deleteLoad,  *)
(* over the rows of the loads table.                                       *)
(***************************************************************************)
\* obj.key = val on the members of an object: an own key keeps its place
PutAt(members, at, key, val) ==
    IF at = {}
    THEN Append(members, [key |-> key, val |-> val])
    ELSE [members EXCEPT ![Min(at)] = [key |-> key, val |-> val]]

Put(members, key, val) ==
    PutAt(members, {i \in 1..Len(members) : members[i].key = key}, key, val)

\* delete obj.key on the members of an object
Delete(members, key) == SelectSeq(members, LAMBDA m : m.key # key)

\* the members of an object as JSON.parse leaves them: the last of equal keys wins
RECURSIVE Own(_)
Own(members) ==
    IF members = <<>> THEN <<>>
    ELSE Put(Own(SubSeq(members, 1, Len(members) - 1)),
             members[Len(members)].key, members[Len(members)].val)

\* { ...value }: the own enumerable members of an object or of an array
Spread(value) ==
    IF value.k = "obj" THEN Own(value.v)
    ELSE IF value.k = "arr"
    THEN [i \in 1..Len(value.v) |-> [key |-> NatToString(i - 1), val |-> value.v[i]]]
    ELSE <<>>

\* createLoad: { ...loadData, user_id: user.id, created_at: new Date().toISOString() }
CreateRecord(loadData, userId) ==
    Obj(Put(Put(Spread(loadData), "user_id", userId), "created_at", Str(Now)))

\* updateLoad: the three deletes and the assignment of updated_at, then what
\* update(updates) serialises: of an array its elements, the properties
\* deleted from and set on the array itself not among them
UpdatesSent(updates) ==
    IF updates.k = "obj"
    THEN Obj(Put(Delete(Delete(Delete(Own(updates.v), "id"), "user_id"), "created_at"),
                 "updated_at", Str(Now)))
    ELSE updates

\* the requests to the loads handler: body is req.body parsed from JSON text
\* (undefined without a body), id is req.query.id
LoadsMethods == {"OPTIONS", "GET", "POST", "PUT", "DELETE", "PATCH"}

LoadsAuthHeaders == {Undefined, Str("Bearer tok-expired"), Str("Bearer tok-alice"),
                     Str("Bearer tok-bob")}

LoadsBodies ==
    {Undefined} \cup
    {JsonParse(t).v : t \in
        {"{\"load_number\": \"LD100\", \"rate\": 2000}",
         "{\"id\": \"9\", \"user_id\": \"user-bob\", \"created_at\": \"1999-01-01\", \"status\": \"delivered\"}",
         "[{\"user_id\": \"user-bob\"}]"}}

LoadsIds == {Undefined, Str("1"), Str("9")}

\* a body comes with POST and PUT, an id with GET, PUT and DELETE
LoadsRequests ==
    {r \in [method : LoadsMethods, authorization : LoadsAuthHeaders,
            body : LoadsBodies, id : LoadsIds] :
        /\ r.method \in {"POST", "PUT"} \/ r.body = Undefined
        /\ r.method \in {"GET", "PUT", "DELETE"} \/ r.id = Undefined}

\* the value of column key of a row
Column(row, key) == Get(row.load, key)

\* row-level security of the loads table: the rows the user's client reaches
Visible(row, userId) == Column(row, "user_id") = userId

\* the rows .eq('id', id) selects for the user's client
Matching(rows, id, userId) ==
    {i \in 1..Len(rows) : Column(rows[i], "id") = id /\ Visible(rows[i], userId)}

\* UPDATE ... SET: the columns named in the payload take its values
RECURSIVE SetColumns(_, _)
SetColumns(members, payload) ==
    IF payload = <<>> THEN members
    ELSE SetColumns(Put(members, payload[1].key, payload[1].val), Tail(payload))

\* the columns an update payload names: of an array those of its first element
PayloadColumns(payload) ==
    IF payload.k = "obj" THEN payload.v
    ELSE IF payload.k = "arr" /\ Len(payload.v) > 0 /\ payload.v[1].k = "obj"
    THEN Own(payload.v[1].v)
    ELSE <<>>

\* the row the storage keeps for an inserted record: its columns, with the
\* id the record brings or else the next id, and who created it
NewRow(record, creator, nextId) ==
    [load    |-> IF Truthy(Get(record, "id")) THEN record
                 ELSE Obj(Put(record.v, "id", Str(NatToString(nextId)))),
     creator |-> creator]

\* the orders in which the storage may return rows of equal created_at
Orderings(rows) ==
    {q \in [1..Len(rows) -> {rows[i] : i \in 1..Len(rows)}] :
        \A i \in 1..Len(rows) : \E j \in 1..Len(rows) : q[j] = rows[i]}

\* the ways a call of the storage may fail (error.message)
StorageErrors == {"TypeError: fetch failed"}

\* the catch block of the loads handler
LoadsCatch(sent, logged, message) ==
    /\ log' = Append(logged, [label |-> "Loads API error:", payload |-> Str(message)])
    /\ Send(sent, 500, [error |-> "Internal server error"])

\* the handler is invoked with request r and runs to the await of verifyUser
LoadsReceive(r) ==
    /\ pc \in {"idle", "done"}
    /\ handler' = "loads"
    /\ req' = r
    /\ user' = JsNull
    /\ locals' = NoLocals
    /\ inserts' = 0
    /\ log' = <<>>
    /\ UNCHANGED <<aiResponse, doc, modelCalls, loads>>
    /\ IF r.method = "OPTIONS"
       THEN Send(<<>>, 200, <<>>)
       ELSE IF ~Truthy(r.authorization) \/ ~StartsWith(r.authorization.v, "Bearer ")
       THEN Send(<<>>, 401, [error |-> "No authorization token provided"])
       ELSE pc' = "loads-auth" /\ res' = <<>>

\* the switch on req.method, run to the first await of the function it calls
Dispatch(r, userId) ==
    IF r.method = "GET"
    THEN /\ pc' = "select"
         /\ UNCHANGED <<locals, inserts, log, res>>
    ELSE IF r.method = "POST"
    THEN /\ locals' = [loadData |-> r.body, loadRecord |-> CreateRecord(r.body, userId)]
         /\ inserts' = inserts + 1
         /\ pc' = "create"
         /\ UNCHANGED <<log, res>>
    ELSE IF r.method = "PUT"
    THEN IF ~Truthy(r.id)
         THEN /\ Send(res, 400, [error |-> "Load ID required"])
              /\ UNCHANGED <<locals, inserts, log>>
         ELSE IF r.body = Undefined
         THEN /\ LoadsCatch(res, log, "Cannot convert undefined or null to object")
              /\ UNCHANGED <<locals, inserts>>
         ELSE /\ locals' = [loadData |-> r.body, loadRecord |-> UpdatesSent(r.body)]
              /\ inserts' = inserts + 1
              /\ pc' = "update"
              /\ UNCHANGED <<log, res>>
    ELSE IF r.method = "DELETE"
    THEN IF ~Truthy(r.id)
         THEN /\ Send(res, 400, [error |-> "Load ID required"])
              /\ UNCHANGED <<locals, inserts, log>>
         ELSE /\ inserts' = inserts + 1
              /\ pc' = "delete"
              /\ UNCHANGED <<locals, log, res>>
    ELSE /\ Send(res, 405, [error |-> "Method not allowed"])
         /\ UNCHANGED <<locals, inserts, log>>

\* supabase.auth.getUser answers, and the loads handler runs on
LoadsAuthReturns ==
    /\ pc = "loads-auth"
    /\ LET got == GetUser(From(req.authorization.v, 8))
       IN  IF Truthy(got.error) \/ ~Truthy(got.user)
           THEN /\ Send(res, 401, [error |-> "Invalid or expired token"])
                /\ UNCHANGED <<user, locals, inserts, log>>
           ELSE /\ user' = got.user
                /\ Dispatch(req, got.user)
    /\ UNCHANGED <<handler, req, aiResponse, doc, modelCalls, loads>>

\* createLoad: the insert succeeds, the storage keeps the row, its id not
\* that of another row, and returns it
CreateReturns ==
    /\ pc = "create"
    /\ Len(loads) < MaxLoads
    /\ LET row == NewRow(locals.loadRecord, user, Len(loads) + 1)
       IN  /\ \A i \in 1..Len(loads) : Column(loads[i], "id") # Column(row, "id")
           /\ loads' = Append(loads, row)
           /\ Send(res, 201, [load |-> row.load])
    /\ UNCHANGED <<handler, req, user, aiResponse, doc, locals, modelCalls, inserts, log>>

\* createLoad: the insert fails
CreateFails(e) ==
    /\ pc = "create"
    /\ log' = Append(log, [label |-> "Error creating load:", payload |-> Str(e)])
    /\ Send(res, 500, [error |-> "Failed to create load"])
    /\ UNCHANGED <<handler, req, user, aiResponse, doc, locals, modelCalls, inserts, loads>>

\* updateLoad: the update reaches exactly one row; the storage sets the
\* columns of the payload on it and returns the row
UpdateRow(i, payload) ==
    /\ loads' = [loads EXCEPT ![i].load = Obj(SetColumns(loads[i].load.v, payload))]
    /\ Send(res, 200, [load |-> Obj(SetColumns(loads[i].load.v, payload))])

UpdateReturns ==
    /\ pc = "update"
    /\ Cardinality(Matching(loads, req.id, user)) = 1
    /\ UpdateRow(Min(Matching(loads, req.id, user)), PayloadColumns(locals.loadRecord))
    /\ UNCHANGED <<handler, req, user, aiResponse, doc, locals, modelCalls, inserts, log>>

\* updateLoad: the update fails, or single() finds no row
UpdateFails(e) ==
    /\ pc = "update"
    /\ log' = Append(log, [label |-> "Error updating load:", payload |-> Str(e)])
    /\ Send(res, 500, [error |-> "Failed to update load"])
    /\ UNCHANGED <<handler, req, user, aiResponse, doc, locals, modelCalls, inserts, loads>>

\* deleteLoad: the rows of this id that the user's client reaches are deleted
DeleteReturns ==
    /\ pc = "delete"
    /\ loads' = SelectSeq(loads, LAMBDA row :
                    ~(Column(row, "id") = req.id /\ Visible(row, user)))
    /\ Send(res, 200, [message |-> "Load deleted successfully"])
    /\ UNCHANGED <<handler, req, user, aiResponse, doc, locals, modelCalls, inserts, log>>

\* deleteLoad: the delete fails
DeleteFails(e) ==
    /\ pc = "delete"
    /\ log' = Append(log, [label |-> "Error deleting load:", payload |-> Str(e)])
    /\ Send(res, 500, [error |-> "Failed to delete load"])
    /\ UNCHANGED <<handler, req, user, aiResponse, doc, locals, modelCalls, inserts, loads>>

\* getLoads: one load by id, or the list with the default limit and offset
SelectReturns ==
    /\ pc = "select"
    /\ IF Truthy(req.id)
       THEN /\ Cardinality(Matching(loads, req.id, user)) = 1
            /\ Send(res, 200, [load |-> loads[Min(Matching(loads, req.id, user))].load])
       ELSE \E data \in Orderings(SelectSeq(loads, LAMBDA row : Visible(row, user))) :
                Send(res, 200, [loads  |-> [i \in 1..Len(data) |-> data[i].load],
                                total  |-> Len(data),
                                limit  |-> 50,
                                offset |-> 0])
    /\ UNCHANGED <<handler, req, user, aiResponse, doc, locals, modelCalls, inserts, log,
                   loads>>

\* getLoads: the query fails, or single() finds no row
SelectFails(e) ==
    /\ pc = "select"
    /\ IF Truthy(req.id)
       THEN Send(res, 404, [error |-> "Load not found"]) /\ UNCHANGED log
       ELSE /\ log' = Append(log, [label |-> "Error fetching loads:", payload |-> Str(e)])
            /\ Send(res, 500, [error |-> "Failed to fetch loads"])
    /\ UNCHANGED <<handler, req, user, aiResponse, doc, locals, modelCalls, inserts, loads>>

NextLoads ==
    \/ \E r \in LoadsRequests : LoadsReceive(r)
    \/ LoadsAuthReturns
    \/ CreateReturns
    \/ \E e \in StorageErrors : CreateFails(e)
    \/ UpdateReturns
    \/ \E e \in StorageErrors : UpdateFails(e)
    \/ DeleteReturns
    \/ \E e \in StorageErrors : DeleteFails(e)
    \/ SelectReturns
    \/ \E e \in StorageErrors : SelectFails(e)

SpecLoads == Init /\ [][NextLoads]_vars

(***************************************************************************)
(* Properties of the delimited-text handlers.                              *)
(***************************************************************************)
\* the response sent for the current request
Sent == res[Len(res)]

\* a delimited-text handler has answered a request for which the model replied
ParsedText ==
    /\ pc = "done"
    /\ handler \in DelimitedHandlers
    /\ aiResponse.k = "str"

\* the numerals of the sampled data lines that denote a number greater than zero
PositiveTexts ==
    {"800", "2000", "500", "1250", "100", "12.5", " 40 ", "1e3", "7 mi", " 412.5 ",
     "1500", " 1031.25"}

\* the number each sampled numeral is to be read as (no number: 0)
ExpectedNumber(text) ==
    CASE text = "800"      -> Num(800, 0)
      [] text = "2000"     -> Num(2000, 0)
      [] text = "500"      -> Num(500, 0)
      [] text = "1250"     -> Num(1250, 0)
      [] text = "100"      -> Num(100, 0)
      [] text = "1500"     -> Num(1500, 0)
      [] text = "12.5"     -> Num(125, 1)
      [] text = " 40 "     -> Num(40, 0)
      [] text = "1e3"      -> Num(1000, 0)
      [] text = "7 mi"     -> Num(7, 0)
      [] text = " 412.5 "  -> Num(4125, 1)
      [] text = " 1031.25" -> Num(103125, 2)
      [] text = "-5"       -> Num(0 - 5, 0)
      [] OTHER             -> Num(0, 0)

\* the sampled values without the blanks around them
Trimmed(text) ==
    CASE text = " LD200"       -> "LD200"
      [] text = "11/21/2025 "  -> "11/21/2025"
      [] text = " 11/24/2025 " -> "11/24/2025"
      [] text = " 555 0100"    -> "555 0100"
      [] text = " Boise ID "   -> "Boise ID"
      [] text = " Dock 4 "     -> "Dock 4"
      [] OTHER                 -> text

\* text is the quotient booked / miles to two decimals: n hundredths, at most
\* half a hundredth away from it
IsRoundedQuotient(text, booked, miles) ==
    LET p == booked.m * Pow10(miles.s)
        q == miles.m * Pow10(booked.s)
    IN  \E n \in {(100 * p) \div q, ((100 * p) \div q) + 1} :
            /\ text = HundredthsToString(n)
            /\ 2 * (n * q - 100 * p) <= q
            /\ 2 * (100 * p - n * q) <= q

\* C1: for every data line parsed, rpm is non-null exactly when miles > 0 and
\* booked_rate > 0; a non-null rpm is booked_rate / miles rounded to 2 decimals
\* (miles 500 and booked_rate 1250 give "2.50"); a null rpm still comes in a
\* 200 success response.
C1_RatePerMile ==
    ParsedText =>
        /\ Sent.status = 200 =>
              /\ Sent.body.rpm # JsNull <=>
                    IsPositive(Sent.body.data.miles) /\ IsPositive(Sent.body.data.booked_rate)
              /\ Sent.body.rpm # JsNull =>
                    IsRoundedQuotient(Sent.body.rpm.v, Sent.body.data.booked_rate,
                                      Sent.body.data.miles)
        /\ doc \in NumberDocs =>
              /\ Sent.status = 200
              /\ Sent.body.success
              /\ Sent.body.rpm = JsNull <=>
                    ~(doc.values[12] \in PositiveTexts /\ doc.values[14] \in PositiveTexts)
              /\ doc.values[12] = "500" /\ doc.values[14] = "1250" =>
                    Sent.body.rpm = Str("2.50")

\* C1 witness: the line with miles 500 and booked rate 1250 was answered "2.50"
C1_Witness ==
    /\ ParsedText
    /\ doc \in NumberDocs
    /\ doc.values[12] = "500"
    /\ doc.values[14] = "1250"
    /\ Sent.status = 200
    /\ Sent.body.rpm = Str("2.50")

\* the answer of the model has no data-line label
NoLabel == doc.label \in {"", "CSV LINE"}

\* C2: when the model's text holds no 'CSV LINE:' label (the empty text
\* included), the answer is 422 with raw equal to that text, and it holds no
\* load data and no rpm.
C2_NoLabelIsMalformed ==
    ParsedText /\ NoLabel =>
        /\ Sent.status = 422
        /\ Sent.body.raw = Build(doc)
        /\ Sent.body.raw = aiResponse.v
        /\ DOMAIN Sent.body = {"error", "raw"}

\* C2 witness: the model answered the empty text
C2_Witness ==
    /\ ParsedText
    /\ Build(doc) = ""
    /\ Sent.status = 422
    /\ Sent.body.raw = ""

\* the field of data that position i of the data line goes to
FieldNames ==
    <<"id", "pickup_date", "delivery_date", "broker_company", "contact", "phone",
      "extension", "email", "origin", "destination", "equipment", "miles", "posted_rate",
      "booked_rate", "shipper", "receiver">>

NumericPositions == {12, 13, 14}

\* position i of data is what the values of the line say, defaults included
PositionAgrees(data, values, i) ==
    IF i \in NumericPositions
    THEN data[FieldNames[i]] =
             IF i <= Len(values) THEN ExpectedNumber(values[i]) ELSE Num(0, 0)
    ELSE data[FieldNames[i]] = IF i <= Len(values) THEN Trimmed(values[i]) ELSE ""

\* C3: a data line of 1 to 15 values is parsed with status 200; each present
\* position goes to its field, a missing text field is "" and a missing
\* numeric field is 0.
C3_MissingPositionsDefault ==
    ParsedText /\ doc \in CountDocs /\ Len(doc.values) \in 1..15 =>
        /\ Sent.status = 200
        /\ DOMAIN Sent.body.data = {FieldNames[i] : i \in 1..16}
        /\ \A i \in 1..16 : PositionAgrees(Sent.body.data, doc.values, i)

\* C3 witness: a line of 10 values was parsed, receiver "" and miles 0
C3_Witness ==
    /\ ParsedText
    /\ doc \in CountDocs
    /\ Len(doc.values) = 10
    /\ Sent.status = 200
    /\ Sent.body.data.destination = "Dallas TX"
    /\ Sent.body.data.receiver = ""
    /\ Sent.body.data.miles = Num(0, 0)

\* C4: a data line of 16 or more values is parsed with status 200 and the 16
\* fields are positions 1 to 16 in order, whatever follows position 16.
C4_SixteenPositions ==
    ParsedText /\ doc \in (CountDocs \cup NumberDocs) /\ Len(doc.values) >= 16 =>
        /\ Sent.status = 200
        /\ DOMAIN Sent.body.data = {FieldNames[i] : i \in 1..16}
        /\ \A i \in 1..16 : PositionAgrees(Sent.body.data, doc.values, i)

\* C4 witness: a line of more than 16 values was parsed
C4_Witness ==
    /\ ParsedText
    /\ doc \in CountDocs
    /\ Len(doc.values) > 16
    /\ Sent.status = 200
    /\ Sent.body.data.receiver = "Acme Receiver"
    /\ Sent.body.data.booked_rate = Num(2000, 0)

\* C5: in every success response miles and booked_rate are numbers, never
\* negative and never NaN, whatever text stands in positions 12 and 14.
C5_NeverNegative ==
    ParsedText /\ Sent.status = 200 =>
        /\ Sent.body.data.miles.k = "num"
        /\ Sent.body.data.booked_rate.k = "num"
        /\ ~IsNegative(Sent.body.data.miles)
        /\ ~IsNegative(Sent.body.data.booked_rate)

\* the invoice email written in the INVOICE EMAIL block of the sampled answers
ExpectedInvoiceEmail(post) ==
    IF post = ScenarioInvoice THEN "billing@acme.com" ELSE "ap@x.io"

HasInvoiceBlock == doc.post \in {ScenarioInvoice, "\r\nINVOICE EMAIL: ap@x.io \r\n"}

HasCsvBlock == doc.label \in {"CSV LINE:", "csv line:", "Csv Line:"} /\ Len(doc.values) > 0

\* C6: when the answer holds a CSV LINE block and an INVOICE EMAIL block, the
\* success result carries the invoice email as a value of its own, beside the
\* record, the raw line and rpm.
C6_InvoiceEmailReturned ==
    ParsedText /\ HasCsvBlock /\ HasInvoiceBlock /\ Sent.status = 200 =>
        \/ \E f \in DOMAIN Sent.body \ {"success", "data", "csvLine", "rpm"} :
              Sent.body[f] = Str(ExpectedInvoiceEmail(doc.post))
        \/ \E f \in DOMAIN Sent.body.data \ {FieldNames[i] : i \in 1..16} :
              Sent.body.data[f] = Str(ExpectedInvoiceEmail(doc.post))

(***************************************************************************)
(* Properties of all the handlers.                                         *)
(***************************************************************************)
\* the body of the request carries no pdfBase64 payload (absent or empty)
NoPayload == ~Truthy(req.body.pdfBase64)

\* the request is a POST that passed the credential check of its handler
Accepted ==
    /\ req.method = "POST"
    /\ IF handler = "password"
       THEN req.hasBody /\ req.body.password = Str(APP_PASSWORD)
       ELSE user # JsNull

InsertFailed ==
    /\ pc = "done"
    /\ handler = "structured"
    /\ aiResponse.k = "str"
    /\ aiResponse.v \in RatedTexts \cup RatelessTexts
    /\ inserts > 0
    /\ Sent.status # 200

\* C8: when the insert fails after the model output was parsed, the request
\* ends with a 500 failure, the insert was called once, and the load record
\* is in the error response or in what the handler logged.
C8_RecordSurvivesInsertFailure ==
    InsertFailed =>
        /\ Sent.status = 500
        /\ inserts = 1
        /\ \/ \E f \in DOMAIN Sent.body \ {"error"} : Sent.body[f] = locals.loadRecord
           \/ \E i \in 1..Len(log) : log[i].payload \in {locals.loadRecord, locals.loadData}

\* the model answered the structured handler with an object without the rate key
Rateless ==
    /\ handler = "structured"
    /\ aiResponse.k = "str"
    /\ aiResponse.v \in RatelessTexts

\* C9: an object without the rate key is parsed successfully and the load
\* record built from it has rate 0; no rate-per-mile is computed.
C9_MissingRateIsZero ==
    Rateless =>
        /\ pc \in {"insert", "done"}
        /\ locals.loadRecord # Undefined
        /\ locals.loadRecord.rate = Num(0, 0)
        /\ "rpm" \notin DOMAIN locals.loadRecord
        /\ pc = "done" /\ Sent.status = 200 => "rpm" \notin DOMAIN Sent.body

\* the model answered the structured handler with text that is not JSON, or
\* JSON that is no object of the expected shape
Malformed ==
    /\ handler = "structured"
    /\ aiResponse.k = "str"
    /\ aiResponse.v \in NotJsonTexts \cup NotObjectTexts \cup ForeignObjectTexts

\* C10: a model response that is not JSON, or not an object of the expected
\* shape, is answered with a failure that carries the raw response, and
\* nothing is inserted for that request.
C10_MalformedJsonIsRejected ==
    Malformed =>
        /\ inserts = 0
        /\ pc = "done"
        /\ Sent.status # 200
        /\ \E f \in DOMAIN Sent.body : Sent.body[f] = aiResponse.v

(***************************************************************************)
(* Properties of the failure of the model call.                            *)
(***************************************************************************)
\* the handler has answered a request during which the model call threw
ModelThrew ==
    /\ pc = "done"
    /\ modelCalls = 1
    /\ aiResponse = Undefined

\* the kind tag of an error body: its error member, the only member that does
\* not vary with the message of the error
Tag(body) == body.error

\* C11: when the model call throws, the handler sends exactly one error
\* response, no success and no record, the failure is logged, and the tag of
\* the response differs from the tags of invalid input, of a malformed
\* extraction, of a failed insert and of any other exception the handler
\* catches (such as the TypeError for a request without a body).
C11_ModelFailureIsTagged ==
    ModelThrew =>
        /\ Len(res) = 1
        /\ Sent.status >= 400
        /\ DOMAIN Sent.body \cap {"success", "data", "csvLine", "rpm", "load", "parsed"} = {}
        /\ Len(log) = 1
        /\ Tag(Sent.body) \notin
              {"No PDF data provided", "Could not extract data from PDF",
               "Failed to parse rate confirmation data", "Failed to save load to database",
               Tag(CatchBody(handler, NoBodyMessage))}

LabelSpellings == {"CSV LINE:", "csv line:", "Csv Line:"}

\* the label occurs only in the middle of a line, after other characters,
\* and a data line follows it
LabelMidLine ==
    /\ doc.pre = "Result: "
    /\ doc.label \in LabelSpellings
    /\ Len(doc.values) > 0

\* the label stands at the start of the text or of a line, before a data line
LabelAtStart ==
    /\ doc.pre \in {"", "Sure.\n"}
    /\ doc.label \in LabelSpellings
    /\ Len(doc.values) > 0

\* C13: a label that occurs only in the middle of a line is no data-line
\* label and the answer is 422 with the raw text; a label at the start of a
\* block is accepted in any letter case.
C13_LabelAnchoredAnyCase ==
    ParsedText /\ doc \in LayoutDocs =>
        /\ LabelMidLine =>
              /\ Sent.status = 422
              /\ Sent.body.raw = Build(doc)
        /\ LabelAtStart => Sent.status = 200

\* the CSV LINE label stands at the start of a block and nothing but blanks
\* and line breaks stands between it and the INVOICE EMAIL label
EmptyCsvBlock ==
    /\ doc \in LayoutDocs
    /\ doc.pre \in {"", "Sure.\n"}
    /\ doc.label \in LabelSpellings
    /\ doc.values = <<>>
    /\ HasInvoiceBlock

\* C14: when nothing but whitespace stands between the CSV LINE label and
\* the INVOICE EMAIL label, the answer is 422 with the raw text, never a
\* success record read from the INVOICE EMAIL block.
C14_EmptyCsvBlockIsMalformed ==
    ParsedText /\ EmptyCsvBlock =>
        /\ Sent.status = 422
        /\ Sent.body.raw = Build(doc)

(***************************************************************************)
(* Properties of the credential check.                                     *)
(***************************************************************************)
\* the request to a bearer-token handler carries no token, a header that is
\* no bearer token, or a token the identity provider rejects
BadToken ==
    /\ handler \in {"token", "structured"}
    /\ req.authorization \notin {Str("Bearer tok-alice"), Str("Bearer tok-bob")}

\* the request to the password handler does not carry the application password
WrongPassword ==
    /\ handler = "password"
    /\ req.body.password # Str("milian2024")

Names(value, key) ==
    IF value.k = "obj" THEN \E i \in 1..Len(value.v) : value.v[i].key = key
    ELSE IF value.k = "arr"
    THEN \E j \in 1..Len(value.v) :
             /\ value.v[j].k = "obj"
             /\ \E i \in 1..Len(value.v[j].v) : value.v[j].v[i].key = key
    ELSE FALSE

\* the loads handler has called insert or update with locals.loadRecord
Creating == handler = "loads" /\ req.method = "POST" /\ locals.loadRecord # Undefined

Updating == handler = "loads" /\ req.method = "PUT" /\ locals.loadRecord # Undefined

\* C16: every row written through the loads handler has the user_id of the
\* authenticated user who created it; createLoad sends the user's id and the
\* time of the request as user_id and created_at, whatever the body says;
\* updateLoad sends no id, user_id or created_at, whatever the body contains.
C16_RowsKeepTheirOwner ==
    /\ \A i \in 1..Len(loads) : Column(loads[i], "user_id") = loads[i].creator
    /\ Creating =>
          /\ Get(locals.loadRecord, "user_id") = user
          /\ Get(locals.loadRecord, "created_at") = Str(Now)
    /\ Updating =>
          \A key \in {"id", "user_id", "created_at"} : ~Names(locals.loadRecord, key)

====
